---- MODULE Spec2Model ----
(***************************************************************************)
(* A model of pip-services3-sqlite-node: the connection resolver, the      *)
(* SqliteConnection and SqlitePersistence lifecycle (configure, set        *)
(* references, open, close) and the identifiable CRUD helpers, against an  *)
(* abstract sqlite3 driver.                                                *)
(*                                                                         *)
(* Four specifications share the module:                                   *)
(*   SpecResolve  SqliteConnectionResolver.resolve over bounded inputs     *)
(*   Spec         the lifecycle of one persistence, wired to a connection  *)
(*                of its own or to the connection of the references        *)
(*   SpecShared   the lifecycle of two persistences that share the         *)
(*                connection of the references                             *)
(*   SpecCrud     the CRUD helpers of an opened identifiable persistence   *)
(*                                                                         *)
(* JavaScript strings are sequences of one-character strings, so that      *)
(* startsWith and substring are computed and not assumed.  null and        *)
(* undefined are not told apart (the code compares with == null).          *)
(***************************************************************************)
EXTENDS Integers, Sequences, FiniteSets, TLC

VARIABLES
    \* ---- SqliteConnectionResolver.resolve (SpecResolve) ----
    rIn,            \* what resolveAll and lookup will answer
    rConnections,   \* the local variable `connections` of resolve
    rDone,          \* the tasks of async.parallel that have called back
    rCb,            \* the invocations of resolve's callback, in order
    \* ---- lifecycle (Spec) ----
    conn,           \* the SqliteConnection objects: _connection, _databaseName, config
    pers,           \* the SqlitePersistence objects' fields
    style,          \* which subclass each persistence is (how it registers its schema)
    hstate,         \* the driver's handles: free, opening, open, closed, failed
    ops,            \* the driver requests in flight with the callback that waits
    nextConn,       \* the next SqliteConnection object createConnection makes
    nextHandle,     \* the next handle new sqlite.Database makes
    tableExists,    \* whether the database file holds the component's table
    tableRows,      \* the rows of that table, by id
    crashed,        \* an exception left a driver callback: the process is gone
    ev,             \* the step just taken: its action, the component it ran
                    \* for, and the callbacks it invoked
    \* ---- CRUD helpers (SpecCrud) ----
    schema,         \* the subclass's table: JSON or flat, unique index on key
    calls,          \* the CRUD calls in flight with the statement each waits for
    cev             \* the CRUD call that completed last and what its callback
                    \* got, forgotten once calls overlap

resolveVars == <<rIn, rConnections, rDone, rCb>>
lifeVars == <<conn, pers, style, hstate, ops, nextConn, nextHandle, tableExists,
              tableRows, crashed, ev>>
crudVars == <<schema, calls, cev>>
vars == <<resolveVars, lifeVars, crudVars>>

(***************************************************************************)
(* Strings                                                                 *)
(***************************************************************************)

\* null (or undefined) where a string is expected: no string has an element
\* that is not a single character
NullStr == <<"null">>

\* the error value null
NoErr == "null"

StartsWith(s, prefix) ==
    /\ Len(s) >= Len(prefix)
    /\ SubSeq(s, 1, Len(prefix)) = prefix

\* String.prototype.substring(n): the characters from 0-based index n on
Substring(s, n) == SubSeq(s, n + 1, Len(s))

\* JavaScript truthiness of a nullable string
Truthy(s) == s # NullStr /\ s # <<>>

FileProtocol == <<"f", "i", "l", "e", ":", "/", "/">>
HttpProtocol == <<"h", "t", "t", "p", ":", "/", "/">>

\* the number of characters composeConfig removes from a uri
UriPrefixLen == 7

(***************************************************************************)
(* SqliteConnectionResolver                                                *)
(***************************************************************************)

\* validateConnection without the check of the protocol
validateConnectionAnyProtocol(connection) ==
    IF connection.uri # NullStr THEN NoErr
    ELSE IF connection.database = NullStr
         THEN "NO_DATABASE"
         ELSE NoErr

validateConnection(connection) ==
    IF connection.uri # NullStr
    THEN IF ~StartsWith(connection.uri, FileProtocol)
         THEN "WRONG_PROTOCOL"
         ELSE NoErr
    ELSE IF connection.database = NullStr
         THEN "NO_DATABASE"
         ELSE NoErr

\* the loop of validateConnections from connection i on
RECURSIVE validateFrom(_, _)
validateFrom(connections, i) ==
    IF i > Len(connections) THEN NoErr
    ELSE IF validateConnection(connections[i]) # NoErr
         THEN validateConnection(connections[i])
         ELSE validateFrom(connections, i + 1)

\* a null list of connections is the empty sequence
validateConnections(connections) ==
    IF Len(connections) = 0 THEN "NO_CONNECTION"
    ELSE validateFrom(connections, 1)

\* one pass of composeConfig's loop body over a config
composeStep(config, connection) ==
    LET c1 == IF Truthy(connection.uri)
              THEN [config EXCEPT !.database = Substring(connection.uri, UriPrefixLen)]
              ELSE config
    IN  IF Truthy(connection.database)
        THEN [c1 EXCEPT !.database = connection.database]
        ELSE c1

RECURSIVE composeFrom(_, _, _)
composeFrom(config, connections, i) ==
    IF i > Len(connections) THEN config
    ELSE composeFrom(composeStep(config, connections[i]), connections, i + 1)

\* config = {} has no database field: database is undefined
EmptyConfig == [database |-> NullStr]

composeConfig(connections) == composeFrom(EmptyConfig, connections, 1)

\* the config argument null of resolve's callback
NullConfig == [database |-> <<"null config">>]

\* resolve when resolveAll and lookup answer without error, as one step
resolve(connections) ==
    IF validateConnections(connections) # NoErr
    THEN [err |-> validateConnections(connections), config |-> NullConfig]
    ELSE [err |-> NoErr, config |-> composeConfig(connections)]

(***************************************************************************)
(* SqliteConnectionResolver.resolve as async.parallel runs it: the two     *)
(* tasks call back in either order; the final callback is invoked at the   *)
(* first error, or once both tasks have succeeded.                         *)
(***************************************************************************)

\* the most connections a configuration holds
MaxConnections == 2

UriValues == {NullStr, <<>>, FileProtocol, FileProtocol \o <<"a">>,
              HttpProtocol \o <<"a">>}
DatabaseValues == {NullStr, <<>>, <<"b">>}
ConnectionParams == [uri : UriValues, database : DatabaseValues]

ConnectionLists ==
    UNION {[1..n -> ConnectionParams] : n \in 0..MaxConnections}

\* what the two lookups of resolve may answer
ResolveInputs ==
    [connections : ConnectionLists,
     resolveErr : {NoErr, "RESOLVE_FAILED"},
     lookupErr : {NoErr, "LOOKUP_FAILED"}]

\* async.parallel's callback of one task: err is the task's error, done the
\* tasks that have called back, connections the variable composeConfig reads
parallelCallback(err, done, connections) ==
    IF rCb # <<>> THEN rCb
    ELSE IF err # NoErr THEN <<[err |-> err, config |-> NullConfig]>>
    ELSE IF done = {"connections", "credential"}
         THEN <<[err |-> NoErr, config |-> composeConfig(connections)]>>
         ELSE rCb

\* the callback of _connectionResolver.resolveAll
ConnectionsResolved ==
    /\ "connections" \notin rDone
    /\ LET result == IF rIn.resolveErr = NoErr THEN rIn.connections ELSE <<>>
           err == IF rIn.resolveErr = NoErr
                  THEN validateConnections(result)
                  ELSE rIn.resolveErr
       IN  /\ rConnections' = result
           /\ rDone' = rDone \cup {"connections"}
           /\ rCb' = parallelCallback(err, rDone', result)
    /\ UNCHANGED <<rIn, lifeVars, crudVars>>

\* the callback of _credentialResolver.lookup
CredentialResolved ==
    /\ "credential" \notin rDone
    /\ rDone' = rDone \cup {"credential"}
    /\ rCb' = parallelCallback(rIn.lookupErr, rDone', rConnections)
    /\ UNCHANGED <<rIn, rConnections, lifeVars, crudVars>>

(***************************************************************************)
(* The lifecycle: SqliteConnection, SqlitePersistence and the driver       *)
(***************************************************************************)

Pers == {"p1", "p2"}
\* the persistence that is wired, unwired and rewired while it runs
Solo == {"p1"}
\* the application, when it calls the shared connection itself
Env == "env"
Callers == Pers \cup {Env}

\* _connection == null in SqliteConnection, _client == null in SqlitePersistence
NoHandle == 0
\* _connection == null in SqlitePersistence
NoConn == -1
\* the SqliteConnection the references hold ("*:connection:sqlite:*:1.0")
SharedConn == 0

\* bounds: connection objects createConnection may make, handles the driver
\* may make, driver requests in flight together
MaxLocalConns == 1
MaxHandles == 2
MaxOps == 2

ConnIds == SharedConn..MaxLocalConns
Handles == 1..MaxHandles
Slots == 1..MaxOps

\* configurations: none, and connection.database = "a"
CfgNone == <<>>
CfgDatabase == <<[uri |-> NullStr, database |-> <<"a">>]>>
Configs == {CfgNone, CfgDatabase}

\* "none": no schema statement; "ctor": the constructor calls ensureTable;
\* "define": defineSchema is overridden (clearSchema, ensureTable, an index)
Styles == {"none", "ctor", "define"}

\* what createSchema did for one open: whether it was called, the statements
\* registered, the probe's answer, the statements handed to the driver
NoSum == [called |-> FALSE, nstmts |-> 0, probe |-> "none", ran |-> 0]

FreeOp == [kind |-> "free", who |-> Env, c |-> SharedConn, h |-> NoHandle,
           db |-> NullStr, stmts |-> <<>>, i |-> 0, sum |-> NoSum]

\* no callback invoked: of a lifecycle call, of a SqliteConnection
NoCb == [kind |-> "none", err |-> NoErr, sum |-> NoSum]
NoConnCb == [kind |-> "none", err |-> NoErr, c |-> SharedConn, h |-> NoHandle,
             db |-> NullStr]

\* the lifecycle state as one value, for the handlers below; cb and ccb are
\* the callbacks the step invokes: the caller's, the SqliteConnection's
St == [conn |-> conn, pers |-> pers, hstate |-> hstate, ops |-> ops,
       nextConn |-> nextConn, nextHandle |-> nextHandle,
       tableExists |-> tableExists, crashed |-> crashed,
       cb |-> NoCb, ccb |-> NoConnCb]

Commit(s) ==
    /\ conn' = s.conn
    /\ pers' = s.pers
    /\ hstate' = s.hstate
    /\ ops' = s.ops
    /\ nextConn' = s.nextConn
    /\ nextHandle' = s.nextHandle
    /\ tableExists' = s.tableExists
    /\ crashed' = s.crashed

HasFreeSlot(s) == \E i \in Slots : s.ops[i].kind = "free"
FreeSlot(s) == CHOOSE i \in Slots :
    /\ s.ops[i].kind = "free"
    /\ \A j \in Slots : j < i => s.ops[j].kind # "free"

\* a request handed to the driver, its callback pending
putOp(s, op) == [s EXCEPT !.ops[FreeSlot(s)] = op]

\* the callback the caller of a lifecycle method gave
invoke(s, who, kind, err, sum) ==
    [s EXCEPT !.cb = [kind |-> kind, err |-> err, sum |-> sum]]

\* ---- schema registration ----

ensureSchema(statements, schemaStatement) == Append(statements, schemaStatement)

autoCreateObject(statements, schemaStatement) ==
    ensureSchema(statements, schemaStatement)

\* clearSchema that leaves the list as it is
clearSchemaKeepsList(statements) == statements

clearSchema(statements) == <<>>

ensureTable(statements) == autoCreateObject(statements, "table")

\* defineSchema of the subclass st, on the statement list
defineSchema(st, statements) ==
    IF st = "define"
    THEN ensureSchema(ensureTable(clearSchema(statements)), "index")
    ELSE statements

\* the statements the constructor of the subclass registers
constructorSchema(st) ==
    IF st = "ctor" THEN ensureTable(<<>>) ELSE <<>>

\* ---- SqliteConnection ----

isOpen(s, c) == s.conn[c].connection # NoHandle

getConnection(s, c) == s.conn[c].connection

getDatabaseName(s, c) == s.conn[c].databaseName

\* ---- SqlitePersistence.open ----

persistenceIsOpen(s, p) == s.pers[p].opened

\* the callback open gives createSchema
createSchemaCallback(s, p, err, sum) ==
    IF err # NoErr
    THEN invoke(s, p, "open", "CONNECT_FAILED", sum)
    ELSE invoke([s EXCEPT !.pers[p].opened = TRUE], p, "open", NoErr, sum)

createSchema(s, p) ==
    LET statements == s.pers[p].schemaStatements
        sum == [called |-> TRUE, nstmts |-> Len(statements), probe |-> "none",
                ran |-> 0]
    IN  IF Len(statements) = 0
        THEN createSchemaCallback(s, p, NoErr, sum)
        ELSE putOp(s, [FreeOp EXCEPT !.kind = "probe", !.who = p,
                                     !.h = s.pers[p].client, !.sum = sum])

\* openCurl that does not ask the connection whether it is open
openCurlWhateverTheConnection(s, p, err) ==
    LET c == s.pers[p].connection
        err1 == IF err = NoErr /\ c = NoConn THEN "INVALID_STATE" ELSE err
        s1 == [s EXCEPT !.pers[p].opened = FALSE]
    IN  IF err1 # NoErr
        THEN invoke(s1, p, "open", err1, NoSum)
        ELSE createSchema(
                 [s1 EXCEPT !.pers[p].client = getConnection(s, c),
                            !.pers[p].databaseName = getDatabaseName(s, c),
                            !.pers[p].schemaStatements = defineSchema(style[p], @)],
                 p)

openCurl(s, p, err) ==
    LET c == s.pers[p].connection
        err1 == IF err = NoErr /\ c = NoConn THEN "INVALID_STATE" ELSE err
        err2 == IF err1 = NoErr /\ ~isOpen(s, c) THEN "CONNECT_FAILED" ELSE err1
        s1 == [s EXCEPT !.pers[p].opened = FALSE]
    IN  IF err2 # NoErr
        THEN invoke(s1, p, "open", err2, NoSum)
        ELSE createSchema(
                 [s1 EXCEPT !.pers[p].client = getConnection(s, c),
                            !.pers[p].databaseName = getDatabaseName(s, c),
                            !.pers[p].schemaStatements = defineSchema(style[p], @)],
                 p)

\* ---- SqlitePersistence.close ----

closeCurl(s, p, err) ==
    invoke([s EXCEPT !.pers[p].opened = FALSE, !.pers[p].client = NoHandle],
           p, "close", err, NoSum)

\* ---- the callbacks SqliteConnection invokes ----

connectionCallback(s, c, who, kind, err, h, db) ==
    LET s1 == [s EXCEPT !.ccb =
                   [kind |-> kind, err |-> err, c |-> c, h |-> h, db |-> db]]
    IN  IF who = Env THEN invoke(s1, Env, kind, err, NoSum)
        ELSE IF kind = "open" THEN openCurl(s1, who, err)
        ELSE closeCurl(s1, who, err)

\* SqliteConnection.open up to the Database constructor; throws: the
\* constructor (or require) throws
connectionOpen(s, c, who, throws) ==
    LET r == resolve(s.conn[c].config)
    IN  IF r.err # NoErr
        THEN connectionCallback(s, c, who, "open", r.err, NoHandle, NullStr)
        ELSE IF throws
        THEN connectionCallback(s, c, who, "open", "CONNECT_FAILED", NoHandle, NullStr)
        ELSE putOp([s EXCEPT !.hstate[s.nextHandle] = "opening",
                             !.nextHandle = @ + 1],
                   [FreeOp EXCEPT !.kind = "connOpen", !.who = who, !.c = c,
                                  !.h = s.nextHandle, !.db = r.config.database])

\* the callback of new sqlite.Database
databaseCallback(s, slot, ok) ==
    LET op == s.ops[slot]
        s0 == [s EXCEPT !.ops[slot] = FreeOp,
                        !.hstate[op.h] = IF ok THEN "open" ELSE "failed"]
        s1 == IF ok
              THEN [s0 EXCEPT !.conn[op.c].connection = op.h,
                              !.conn[op.c].databaseName = op.db]
              ELSE s0
    IN  connectionCallback(s1, op.c, op.who, "open",
                           IF ok THEN NoErr ELSE "CONNECT_FAILED", op.h, op.db)

connectionClose(s, c, who) ==
    IF s.conn[c].connection = NoHandle
    THEN connectionCallback(s, c, who, "close", NoErr, NoHandle, NullStr)
    ELSE putOp(s, [FreeOp EXCEPT !.kind = "connClose", !.who = who, !.c = c,
                                 !.h = s.conn[c].connection])

\* closeCallback that forgets the database name only when the handle closed
closeCallbackKeepName(s, slot, ok) ==
    LET op == s.ops[slot]
        s0 == [s EXCEPT !.ops[slot] = FreeOp,
                        !.hstate[op.h] = IF ok THEN "closed" ELSE @]
        s1 == [s0 EXCEPT !.conn[op.c].connection = NoHandle,
                         !.conn[op.c].databaseName = IF ok THEN NullStr ELSE @]
    IN  connectionCallback(s1, op.c, op.who, "close",
                           IF ok THEN NoErr ELSE "DISCONNECT_FAILED",
                           NoHandle, NullStr)

\* the callback of the handle's close
closeCallback(s, slot, ok) ==
    LET op == s.ops[slot]
        s0 == [s EXCEPT !.ops[slot] = FreeOp,
                        !.hstate[op.h] = IF ok THEN "closed" ELSE @]
        s1 == [s0 EXCEPT !.conn[op.c].connection = NoHandle,
                         !.conn[op.c].databaseName = NullStr]
    IN  connectionCallback(s1, op.c, op.who, "close",
                           IF ok THEN NoErr ELSE "DISCONNECT_FAILED",
                           NoHandle, NullStr)

\* ---- SqlitePersistence ----

createConnection(s, p) ==
    [s EXCEPT !.conn[s.nextConn] = [connection |-> NoHandle,
                                    databaseName |-> NullStr,
                                    config |-> s.pers[p].config],
              !.nextConn = @ + 1]

\* found: the references hold a connection
setReferences(s, p, found) ==
    IF found
    THEN [s EXCEPT !.pers[p].connection = SharedConn,
                   !.pers[p].localConnection = FALSE]
    ELSE [createConnection(s, p) EXCEPT !.pers[p].connection = s.nextConn,
                                        !.pers[p].localConnection = TRUE]

unsetReferences(s, p) == [s EXCEPT !.pers[p].connection = NoConn]

\* open that does not look at _opened
persistenceOpenAgain(s, p, throws) ==
    LET s1 == IF s.pers[p].connection = NoConn
              THEN [createConnection(s, p) EXCEPT
                        !.pers[p].connection = s.nextConn,
                        !.pers[p].localConnection = TRUE]
              ELSE s
    IN  IF s1.pers[p].localConnection
        THEN connectionOpen(s1, s1.pers[p].connection, p, throws)
        ELSE openCurl(s1, p, NoErr)

persistenceOpen(s, p, throws) ==
    IF s.pers[p].opened THEN invoke(s, p, "open", NoErr, NoSum)
    ELSE LET s1 == IF s.pers[p].connection = NoConn
                   THEN [createConnection(s, p) EXCEPT
                             !.pers[p].connection = s.nextConn,
                             !.pers[p].localConnection = TRUE]
                   ELSE s
         IN  IF s1.pers[p].localConnection
             THEN connectionOpen(s1, s1.pers[p].connection, p, throws)
             ELSE openCurl(s1, p, NoErr)

\* close that closes the connection whoever made it
persistenceCloseAnyConnection(s, p) ==
    IF ~s.pers[p].opened THEN invoke(s, p, "close", NoErr, NoSum)
    ELSE IF s.pers[p].connection = NoConn
    THEN invoke(s, p, "close", "INVALID_STATE", NoSum)
    ELSE connectionClose(s, s.pers[p].connection, p)

\* close that answers an error when its connection is no longer open
persistenceCloseOnlyWhileConnected(s, p) ==
    IF ~s.pers[p].opened THEN invoke(s, p, "close", NoErr, NoSum)
    ELSE IF s.pers[p].connection = NoConn
            \/ ~isOpen(s, s.pers[p].connection)
    THEN invoke(s, p, "close", "INVALID_STATE", NoSum)
    ELSE IF s.pers[p].localConnection
    THEN connectionClose(s, s.pers[p].connection, p)
    ELSE closeCurl(s, p, NoErr)

persistenceClose(s, p) ==
    IF ~s.pers[p].opened THEN invoke(s, p, "close", NoErr, NoSum)
    ELSE IF s.pers[p].connection = NoConn
    THEN invoke(s, p, "close", "INVALID_STATE", NoSum)
    ELSE IF s.pers[p].localConnection
    THEN connectionClose(s, s.pers[p].connection, p)
    ELSE closeCurl(s, p, NoErr)

\* ---- createSchema's driver callbacks ----

\* async.eachSeries from statement i on: the iterator reads this._client
eachSeries(s, p, statements, i, sum) ==
    IF i > Len(statements) THEN createSchemaCallback(s, p, NoErr, sum)
    ELSE IF s.pers[p].client = NoHandle THEN [s EXCEPT !.crashed = TRUE]
    ELSE putOp(s, [FreeOp EXCEPT !.kind = "exec", !.who = p,
                                 !.h = s.pers[p].client, !.stmts = statements,
                                 !.i = i,
                                 !.sum = [sum EXCEPT !.ran = @ + 1]])

\* probeCallback that runs the statements whenever the probe did not fail
probeCallbackAlwaysCreate(s, slot, result) ==
    LET op == s.ops[slot]
        s0 == [s EXCEPT !.ops[slot] = FreeOp]
        sum == [op.sum EXCEPT !.probe = result]
    IN  IF result = "error"
        THEN createSchemaCallback(s0, op.who, "SQLITE_ERROR", sum)
        ELSE eachSeries(s0, op.who, s0.pers[op.who].schemaStatements, 1, sum)

\* the callback of the probe SELECT; result: "ok", "no such table", "error"
probeCallback(s, slot, result) ==
    LET op == s.ops[slot]
        s0 == [s EXCEPT !.ops[slot] = FreeOp]
        sum == [op.sum EXCEPT !.probe = result]
    IN  IF result = "ok" THEN createSchemaCallback(s0, op.who, NoErr, sum)
        ELSE IF result # "no such table"
        THEN createSchemaCallback(s0, op.who, "SQLITE_ERROR", sum)
        ELSE eachSeries(s0, op.who, s0.pers[op.who].schemaStatements, 1, sum)

\* the callback of the exec of statement op.i
execCallback(s, slot, ok) ==
    LET op == s.ops[slot]
        s0 == [s EXCEPT !.ops[slot] = FreeOp,
                        !.tableExists = @ \/ (ok /\ op.stmts[op.i] = "table")]
    IN  IF ~ok THEN createSchemaCallback(s0, op.who, "SQLITE_ERROR", op.sum)
        ELSE eachSeries(s0, op.who, op.stmts, op.i + 1, op.sum)

\* ---- what the driver may answer ----

\* the probe SELECT * FROM table LIMIT 1 on handle h
ProbeResults(h) ==
    IF hstate[h] # "open" THEN {"error"}
    ELSE IF tableExists THEN {"ok", "error"}
    ELSE {"no such table", "error"}

\* CREATE TABLE IF NOT EXISTS needs an open handle, CREATE INDEX the table too
ExecResults(h, statement) ==
    IF hstate[h] = "open" /\ (statement = "index" => tableExists)
    THEN {TRUE, FALSE}
    ELSE {FALSE}

CloseResults(h) == IF hstate[h] = "open" THEN {TRUE, FALSE} ELSE {FALSE}

\* ---- actions ----

Step(act, who, s) ==
    /\ Commit(s)
    /\ ev' = [act |-> act, who |-> who, cb |-> s.cb, ccb |-> s.ccb]
    /\ UNCHANGED <<resolveVars, style, tableRows, crudVars>>

SetReferences(p) ==
    /\ ~crashed
    /\ \E found \in BOOLEAN :
        /\ ~found => nextConn <= MaxLocalConns
        /\ Step("setReferences", p, setReferences(St, p, found))

UnsetReferences(p) ==
    /\ ~crashed
    /\ pers[p].connection # NoConn
    /\ Step("unsetReferences", p, unsetReferences(St, p))

PersOpen(p) ==
    /\ ~crashed
    /\ HasFreeSlot(St)
    /\ pers[p].opened \/ nextHandle <= MaxHandles
    /\ pers[p].connection = NoConn => nextConn <= MaxLocalConns
    /\ \E throws \in BOOLEAN : Step("open", p, persistenceOpen(St, p, throws))

PersClose(p) ==
    /\ ~crashed
    /\ HasFreeSlot(St)
    /\ Step("close", p, persistenceClose(St, p))

ConnOpen ==
    /\ ~crashed
    /\ HasFreeSlot(St)
    /\ nextHandle <= MaxHandles
    /\ \E throws \in BOOLEAN :
        Step("open", Env, connectionOpen(St, SharedConn, Env, throws))

ConnClose ==
    /\ ~crashed
    /\ HasFreeSlot(St)
    /\ Step("close", Env, connectionClose(St, SharedConn, Env))

DatabaseCallback(slot) ==
    /\ ~crashed
    /\ ops[slot].kind = "connOpen"
    /\ \E ok \in BOOLEAN :
        Step("databaseCallback", ops[slot].who, databaseCallback(St, slot, ok))

CloseCallback(slot) ==
    /\ ~crashed
    /\ ops[slot].kind = "connClose"
    /\ \E ok \in CloseResults(ops[slot].h) :
        Step("closeCallback", ops[slot].who, closeCallback(St, slot, ok))

ProbeCallback(slot) ==
    /\ ~crashed
    /\ ops[slot].kind = "probe"
    /\ \E result \in ProbeResults(ops[slot].h) :
        Step("probeCallback", ops[slot].who, probeCallback(St, slot, result))

ExecCallback(slot) ==
    /\ ~crashed
    /\ ops[slot].kind = "exec"
    /\ \E ok \in ExecResults(ops[slot].h, ops[slot].stmts[ops[slot].i]) :
        Step("execCallback", ops[slot].who, execCallback(St, slot, ok))

(***************************************************************************)
(* The table and the CRUD helpers of IdentifiableSqlitePersistence         *)
(***************************************************************************)

\* the ids callers choose
MaxIds == 2
Ids == 1..MaxIds
\* item.id == null
NoId == 0
\* the id IdGenerator.nextLong answers: one no caller chose
GenId == MaxIds + 1
AllIds == 1..GenId

Keys == {<<"a">>, <<"b">>}
Contents == {<<"x">>}

\* the data items callers pass, and the item null
Items == [id : Ids \cup {NoId}, key : Keys, content : Contents]
NullItem == [id |-> NoId, key |-> NullStr, content |-> NullStr]

\* no row: what get answers when nothing matches
NoRow == [id |-> NoId]
EmptyTable == [i \in AllIds |-> NoRow]

\* JSON.stringify and JSON.parse of a data item: the text is the list of the
\* item's values in the order of its fields
stringify(value) == <<value.id, value.key, value.content>>

\* JSON.parse that mistakes the order of the fields
parseSwapped(data) == [id |-> data[1], key |-> data[3], content |-> data[2]]

parse(data) == [id |-> data[1], key |-> data[2], content |-> data[3]]

\* of SqlitePersistence (flat) and of IdentifiableJsonSqlitePersistence
convertToPublic(sch, value) ==
    IF value = NoRow THEN NullItem
    ELSE IF sch.json THEN parse(value.data)
    ELSE value

convertFromPublic(sch, value) ==
    IF sch.json THEN [id |-> value.id, data |-> stringify(value)]
    ELSE value

\* ---- the statements, as the driver runs them ----

\* the key column, or JSON_EXTRACT(data, '$.key')
rowKey(sch, row) == IF sch.json THEN parse(row.data).key ELSE row.key

\* the unique index on key refuses the row
keyTaken(sch, rows, row) ==
    /\ sch.uniqueKey
    /\ \E j \in AllIds :
        /\ j # row.id
        /\ rows[j] # NoRow
        /\ rowKey(sch, rows[j]) = rowKey(sch, row)

\* INSERT INTO table (columns) VALUES (values); id is the primary key
\* an INSERT that replaces the row of the same id (INSERT OR REPLACE)
insertOrReplace(sch, rows, row) ==
    IF keyTaken(sch, rows, row)
    THEN [err |-> "SQLITE_CONSTRAINT", rows |-> rows]
    ELSE [err |-> NoErr, rows |-> [rows EXCEPT ![row.id] = row]]

insert(sch, rows, row) ==
    IF rows[row.id] # NoRow \/ keyTaken(sch, rows, row)
    THEN [err |-> "SQLITE_CONSTRAINT", rows |-> rows]
    ELSE [err |-> NoErr, rows |-> [rows EXCEPT ![row.id] = row]]

\* INSERT ... ON CONFLICT(id) DO UPDATE SET columns
upsert(sch, rows, row) ==
    IF keyTaken(sch, rows, row)
    THEN [err |-> "SQLITE_CONSTRAINT", rows |-> rows]
    ELSE [err |-> NoErr, rows |-> [rows EXCEPT ![row.id] = row]]

\* UPDATE table SET columns WHERE id=?
updateWhereId(sch, rows, row, id) ==
    IF rows[id] = NoRow THEN [err |-> NoErr, rows |-> rows]
    ELSE IF keyTaken(sch, rows, row)
    THEN [err |-> "SQLITE_CONSTRAINT", rows |-> rows]
    ELSE [err |-> NoErr, rows |-> [rows EXCEPT ![id] = row]]

\* SELECT * FROM table WHERE id=?
selectWhereId(rows, id) == IF id \in AllIds THEN rows[id] ELSE NoRow

\* ---- calls in flight ----

\* the most CRUD calls in flight together
MaxCalls == 2
CallSlots == 1..MaxCalls

\* alone: no other call was in flight while this one was; werr: the err the
\* callback of the call's write statement received
FreeCall == [op |-> "free", stmt |-> "none", item |-> NullItem, id |-> NoId,
             alone |-> TRUE, werr |-> NoErr, arg |-> NullItem]

NoCev == [op |-> "none", item |-> NullItem, id |-> NoId, err |-> NoErr,
          result |-> NullItem, alone |-> TRUE, arg |-> NullItem]

HasFreeCall == \E i \in CallSlots : calls[i].op = "free"
FreeCallSlot == CHOOSE i \in CallSlots :
    /\ calls[i].op = "free"
    /\ \A j \in CallSlots : j < i => calls[j].op # "free"
NoCalls == \A i \in CallSlots : calls[i].op = "free"

\* the id the generator answers is in no row and in no call
GenIdFresh ==
    /\ tableRows[GenId] = NoRow
    /\ \A i \in CallSlots : calls[i].op # "free" => calls[i].id # GenId

\* the method handed statement stmt to the driver; arg is the object the
\* caller passed, as the method left it
beginWith(op, stmt, item, id, arg) ==
    /\ HasFreeCall
    /\ calls' = [i \in CallSlots |->
                    IF i = FreeCallSlot
                    THEN [op |-> op, stmt |-> stmt, item |-> item, id |-> id,
                          alone |-> NoCalls, werr |-> NoErr, arg |-> arg]
                    ELSE IF calls[i].op = "free" THEN calls[i]
                    ELSE [calls[i] EXCEPT !.alone = FALSE]]
    /\ cev' = IF NoCalls THEN cev ELSE NoCev
    /\ UNCHANGED tableRows

\* a method that works on the object it was passed
begin(op, stmt, item, id) == beginWith(op, stmt, item, id, item)

\* the method invoked the caller's callback from a driver callback
complete(slot, err, result) ==
    /\ calls' = [calls EXCEPT ![slot] = FreeCall]
    /\ cev' = [op |-> calls[slot].op, item |-> calls[slot].item,
               id |-> calls[slot].id, err |-> err, result |-> result,
               alone |-> calls[slot].alone, arg |-> calls[slot].arg]

\* the method invoked the caller's callback before it returned
immediate(op, item, id, err, result) ==
    /\ cev' = [op |-> op, item |-> item, id |-> id, err |-> err,
               result |-> result, alone |-> NoCalls, arg |-> item]
    /\ UNCHANGED <<tableRows, calls>>

CrudFrame == UNCHANGED <<resolveVars, conn, pers, style, hstate, ops, nextConn,
                         nextHandle, tableExists, crashed, ev, schema>>

\* _.clone that hands back the object it was given
cloneSameObject(heap, ref) == [heap |-> heap, ref |-> ref]

\* _.clone(value): a new object with the fields of the object at ref
clone(heap, ref) == [heap |-> [heap EXCEPT !.copy = heap[ref]], ref |-> "copy"]

\* the objects of IdentifiableSqlitePersistence.create: arg is the caller's,
\* ref names the one create calls newItem
createObjects(item) ==
    LET heap == [arg |-> item, copy |-> NullItem]
        newItem == IF item.id = NoId THEN clone(heap, "arg")
                   ELSE [heap |-> heap, ref |-> "arg"]
    IN  IF item.id = NoId
        THEN [newItem EXCEPT !.heap[newItem.ref].id = GenId]
        ELSE newItem

\* IdentifiableSqlitePersistence.create assigns the id
assignId(item) == createObjects(item).heap[createObjects(item).ref]

\* ---- IdentifiableSqlitePersistence.create, SqlitePersistence.create ----

Create(item) ==
    /\ CrudFrame
    /\ IF item = NullItem
       THEN immediate("create", item, NoId, NoErr, NullItem)
       ELSE /\ item.id = NoId => GenIdFresh
            /\ beginWith("create", "run", assignId(item), assignId(item).id,
                         createObjects(item).heap.arg)

\* the callback of the INSERT: the caller gets the item it passed
CreateCallback(slot) ==
    /\ CrudFrame
    /\ calls[slot].op = "create"
    /\ LET item == calls[slot].item
           r == insert(schema, tableRows, convertFromPublic(schema, item))
       IN  /\ tableRows' = r.rows
           /\ complete(slot, r.err, item)

\* ---- getOneById ----

GetOneById(id) ==
    /\ CrudFrame
    /\ begin("getOneById", "get", NullItem, id)

GetOneByIdCallback(slot) ==
    /\ CrudFrame
    /\ calls[slot].op = "getOneById"
    /\ LET result == selectWhereId(tableRows, calls[slot].id)
       IN  /\ complete(slot, NoErr, convertToPublic(schema, result))
           /\ UNCHANGED tableRows

\* ---- set ----

Set(item) ==
    /\ CrudFrame
    /\ IF item = NullItem
       THEN immediate("set", item, NoId, NoErr, NullItem)
       ELSE /\ item.id = NoId => GenIdFresh
            /\ begin("set", "run", assignId(item), assignId(item).id)

\* the callback of the INSERT ... ON CONFLICT: its err is not looked at
\* again, the SELECT is handed to the driver
SetRunCallback(slot) ==
    /\ CrudFrame
    /\ calls[slot].op = "set"
    /\ calls[slot].stmt = "run"
    /\ LET r == upsert(schema, tableRows,
                       convertFromPublic(schema, calls[slot].item))
       IN  /\ tableRows' = r.rows
           /\ calls' = [calls EXCEPT ![slot].stmt = "get", ![slot].werr = r.err]
           /\ UNCHANGED cev

\* the callback of the SELECT: the caller gets its err and its row
SetGetCallback(slot) ==
    /\ CrudFrame
    /\ calls[slot].op = "set"
    /\ calls[slot].stmt = "get"
    /\ LET result == selectWhereId(tableRows, calls[slot].id)
       IN  /\ complete(slot, NoErr, convertToPublic(schema, result))
           /\ UNCHANGED tableRows

\* ---- update ----

Update(item) ==
    /\ CrudFrame
    /\ IF item = NullItem \/ item.id = NoId
       THEN immediate("update", item, item.id, NoErr, NullItem)
       ELSE begin("update", "run", item, item.id)

\* the callback of the UPDATE: its err is not looked at again
UpdateRunCallback(slot) ==
    /\ CrudFrame
    /\ calls[slot].op = "update"
    /\ calls[slot].stmt = "run"
    /\ LET r == updateWhereId(schema, tableRows,
                              convertFromPublic(schema, calls[slot].item),
                              calls[slot].id)
       IN  /\ tableRows' = r.rows
           /\ calls' = [calls EXCEPT ![slot].stmt = "get", ![slot].werr = r.err]
           /\ UNCHANGED cev

UpdateGetCallback(slot) ==
    /\ CrudFrame
    /\ calls[slot].op = "update"
    /\ calls[slot].stmt = "get"
    /\ LET result == selectWhereId(tableRows, calls[slot].id)
       IN  /\ complete(slot, NoErr, convertToPublic(schema, result))
           /\ UNCHANGED tableRows

\* ---- updatePartially ----

\* a field the map does not name
Absent == <<"undefined">>

\* the maps updatePartially is called with: each names key, content, both or
\* neither
Datas == [key : Keys \cup {Absent}, content : Contents \cup {Absent}]

\* maps that name the id, as an AnyValueMap may
IdDatas == [id : Ids, key : {Absent}, content : {Absent}]

\* JSON_PATCH(target, patch): the fields of the patch replace the target's;
\* the patch is a document of the fields it names (1 id, 2 key, 3 content)
JSON_PATCH(target, patch) ==
    [i \in 1..3 |-> IF i \in DOMAIN patch THEN patch[i] ELSE target[i]]

\* the row the UPDATE of updatePartially leaves in place of row: the JSON
\* persistence patches the data column with JSON.stringify(data.getAsObject())
\* and leaves the id column, the flat one sets the columns the map names
patchedRow(sch, row, data) ==
    LET named == {i \in 1..3 : CASE i = 1 -> "id" \in DOMAIN data
                                  [] i = 2 -> data.key # Absent
                                  [] OTHER -> data.content # Absent}
        patch == [i \in named |-> CASE i = 1 -> data.id
                                    [] i = 2 -> data.key
                                    [] OTHER -> data.content]
    IN  IF sch.json
        THEN [id |-> row.id, data |-> JSON_PATCH(row.data, patch)]
        ELSE [id |-> IF 1 \in named THEN data.id ELSE row.id,
              key |-> IF 2 \in named THEN data.key ELSE row.key,
              content |-> IF 3 \in named THEN data.content ELSE row.content]

\* UPDATE table SET params WHERE id=?, or SET data=JSON_PATCH(data,?) in the
\* JSON persistence; with no column named the flat statement does not parse
updatePartiallyWhereId(sch, rows, data, id) ==
    IF /\ ~sch.json
       /\ "id" \notin DOMAIN data
       /\ data.key = Absent
       /\ data.content = Absent
    THEN [err |-> "SQLITE_ERROR", rows |-> rows]
    ELSE IF rows[id] = NoRow THEN [err |-> NoErr, rows |-> rows]
    ELSE LET row == patchedRow(sch, rows[id], data)
         IN  IF \/ keyTaken(sch, rows, row)
                \/ (row.id # id /\ rows[row.id] # NoRow)
             THEN [err |-> "SQLITE_CONSTRAINT", rows |-> rows]
             ELSE [err |-> NoErr,
                   rows |-> [rows EXCEPT ![id] = NoRow, ![row.id] = row]]

UpdatePartially(id, data) ==
    /\ CrudFrame
    /\ IF data = NullItem \/ id = NoId
       THEN immediate("updatePartially", data, id, NoErr, NullItem)
       ELSE begin("updatePartially", "run", data, id)

\* the callback of the UPDATE: its err is not looked at again
UpdatePartiallyRunCallback(slot) ==
    /\ CrudFrame
    /\ calls[slot].op = "updatePartially"
    /\ calls[slot].stmt = "run"
    /\ LET r == updatePartiallyWhereId(schema, tableRows, calls[slot].item,
                                       calls[slot].id)
       IN  /\ tableRows' = r.rows
           /\ calls' = [calls EXCEPT ![slot].stmt = "get", ![slot].werr = r.err]
           /\ UNCHANGED cev

UpdatePartiallyGetCallback(slot) ==
    /\ CrudFrame
    /\ calls[slot].op = "updatePartially"
    /\ calls[slot].stmt = "get"
    /\ LET result == selectWhereId(tableRows, calls[slot].id)
       IN  /\ complete(slot, NoErr, convertToPublic(schema, result))
           /\ UNCHANGED tableRows

\* ---- deleteById ----

\* DELETE FROM table, whatever the id
deleteWhereIdEveryRow(rows, id) == [i \in AllIds |-> NoRow]

\* DELETE FROM table WHERE id=?
deleteWhereId(rows, id) ==
    IF id \in AllIds THEN [rows EXCEPT ![id] = NoRow] ELSE rows

DeleteById(id) ==
    /\ CrudFrame
    /\ begin("deleteById", "get", NullItem, id)

\* the callback of the SELECT: with no row the caller gets (err, null) and no
\* DELETE is handed to the driver; with a row the DELETE is, and the item read
\* is kept for the callback
DeleteByIdGetCallback(slot) ==
    /\ CrudFrame
    /\ calls[slot].op = "deleteById"
    /\ calls[slot].stmt = "get"
    /\ UNCHANGED tableRows
    /\ LET newItem == convertToPublic(schema,
                           selectWhereId(tableRows, calls[slot].id))
       IN  IF newItem = NullItem
           THEN complete(slot, NoErr, NullItem)
           ELSE /\ calls' = [calls EXCEPT ![slot].stmt = "run",
                                          ![slot].item = newItem]
                /\ UNCHANGED cev

\* the callback of the DELETE: the caller gets the item the SELECT read
DeleteByIdRunCallback(slot) ==
    /\ CrudFrame
    /\ calls[slot].op = "deleteById"
    /\ calls[slot].stmt = "run"
    /\ tableRows' = deleteWhereId(tableRows, calls[slot].id)
    /\ complete(slot, NoErr, calls[slot].item)

\* ---- getListByIds, deleteByIds ----

\* the longest array of ids a caller passes
MaxIdList == 2
IdLists == UNION {[1..n -> Ids] : n \in 0..MaxIdList}

\* the ids of all the rows, whatever ids holds
whereIdInAnyList(rows, ids) == {i \in AllIds : rows[i] # NoRow}

\* the ids of the rows WHERE id IN(?,...) selects
whereIdIn(rows, ids) ==
    {i \in AllIds : rows[i] # NoRow /\ \E n \in DOMAIN ids : ids[n] = i}

GetListByIds(ids) ==
    /\ CrudFrame
    /\ begin("getListByIds", "all", [ids |-> ids], NoId)

\* the callback of all: the rows the SELECT found, each once, in the order
\* the driver answers them, mapped with convertToPublic
GetListByIdsCallback(slot) ==
    /\ CrudFrame
    /\ calls[slot].op = "getListByIds"
    /\ UNCHANGED tableRows
    /\ LET found == whereIdIn(tableRows, calls[slot].item.ids)
       IN  \E order \in [1..Cardinality(found) -> found] :
               /\ \A i \in found : \E n \in DOMAIN order : order[n] = i
               /\ complete(slot, NoErr,
                       [items |-> [n \in DOMAIN order |->
                           convertToPublic(schema, tableRows[order[n]])]])

DeleteByIds(ids) ==
    /\ CrudFrame
    /\ begin("deleteByIds", "run", [ids |-> ids], NoId)

\* the callback of the DELETE ... WHERE id IN(?,...): the caller gets err
DeleteByIdsCallback(slot) ==
    /\ CrudFrame
    /\ calls[slot].op = "deleteByIds"
    /\ tableRows' = [i \in AllIds |->
                        IF i \in whereIdIn(tableRows, calls[slot].item.ids)
                        THEN NoRow ELSE tableRows[i]]
    /\ complete(slot, NoErr, NullItem)

\* ---- clear, getCountByFilter, getPageByFilter ----

\* a number that is null
NoNumber == -1000

\* options.max_page_size when configure does not find it, and a configured one
DefaultMaxPageSize == 100
ConfiguredMaxPageSize == 1

\* the persistences the paged reads run on: the flat one, the JSON one with
\* options.max_page_size configured, and one constructed without a table name
PageSchemas ==
    {[json |-> FALSE, uniqueKey |-> FALSE, tableName |-> <<"d">>,
      maxPageSize |-> DefaultMaxPageSize],
     [json |-> TRUE, uniqueKey |-> TRUE, tableName |-> <<"d">>,
      maxPageSize |-> ConfiguredMaxPageSize],
     [json |-> TRUE, uniqueKey |-> FALSE, tableName |-> NullStr,
      maxPageSize |-> DefaultMaxPageSize]}

\* the keys callers filter by; NullStr is no filter
FilterKeys == {NullStr, <<"a">>}

\* the skip and the take a caller asks for
MaxSkip == 1
MaxTake == 2

\* new PagingParams(skip, take, total); a null paging is replaced by
\* new PagingParams(), which is the one with null, null and false
Pagings == [skip : {NoNumber, MaxSkip},
            take : {NoNumber, -1, MaxTake},
            total : BOOLEAN]

\* PagingParams.getSkip(minSkip)
getSkip(paging, minSkip) ==
    IF paging.skip = NoNumber THEN minSkip
    ELSE IF paging.skip < minSkip THEN minSkip
    ELSE paging.skip

\* the take asked for, or maxTake when none is
getTakeUncapped(paging, maxTake) ==
    IF paging.take = NoNumber THEN maxTake ELSE paging.take

\* PagingParams.getTake(maxTake)
getTake(paging, maxTake) ==
    IF paging.take = NoNumber THEN maxTake
    ELSE IF paging.take < 0 THEN 0
    ELSE IF paging.take > maxTake THEN maxTake
    ELSE paging.take

\* the ids of the rows WHERE key='...' selects; every row with no filter
whereFilter(sch, rows, key) ==
    {i \in AllIds : rows[i] # NoRow /\ (key = NullStr
                                        \/ rowKey(sch, rows[i]) = key)}

\* LIMIT take [OFFSET skip] over the rows in the order the driver scans them;
\* a negative LIMIT is no limit
limitOffset(scan, take, skip) ==
    LET from == IF skip >= 0 THEN skip + 1 ELSE 1
        upto == IF take < 0 THEN Len(scan)
                ELSE IF from + take - 1 > Len(scan) THEN Len(scan)
                ELSE from + take - 1
    IN  SubSeq(scan, from, upto)

\* clear that does not look at the table name
ClearWhateverTheName ==
    /\ CrudFrame
    /\ begin("clear", "exec", NullItem, NoId)

Clear ==
    /\ CrudFrame
    /\ IF schema.tableName = NullStr
       THEN immediate("clear", NullItem, NoId, "Table name is not defined",
                      NullItem)
       ELSE begin("clear", "exec", NullItem, NoId)

\* the callback of exec of DELETE FROM table
ClearCallback(slot) ==
    /\ CrudFrame
    /\ calls[slot].op = "clear"
    /\ tableRows' = EmptyTable
    /\ complete(slot, NoErr, NullItem)

GetCountByFilter(key) ==
    /\ CrudFrame
    /\ begin("getCountByFilter", "get", [filter |-> key], NoId)

\* the callback of get of SELECT COUNT(*): the statement names no table when
\* the table name is null
GetCountByFilterCallback(slot) ==
    /\ CrudFrame
    /\ calls[slot].op = "getCountByFilter"
    /\ UNCHANGED tableRows
    /\ IF schema.tableName = NullStr
       THEN complete(slot, "SQLITE_ERROR", NullItem)
       ELSE complete(slot, NoErr,
                [count |-> Cardinality(whereFilter(schema, tableRows,
                                                   calls[slot].item.filter))])

GetPageByFilter(key, paging) ==
    /\ CrudFrame
    /\ begin("getPageByFilter", "all",
             [filter |-> key,
              skip |-> getSkip(paging, -1),
              take |-> getTake(paging, schema.maxPageSize),
              pagingEnabled |-> paging.total,
              items |-> <<>>],
             NoId)

\* the callback of all: the page without a total, or the SELECT COUNT(*)
GetPageByFilterAllCallback(slot) ==
    /\ CrudFrame
    /\ calls[slot].op = "getPageByFilter"
    /\ calls[slot].stmt = "all"
    /\ UNCHANGED tableRows
    /\ IF schema.tableName = NullStr
       THEN complete(slot, "SQLITE_ERROR", NullItem)
       ELSE LET found == whereFilter(schema, tableRows, calls[slot].item.filter)
            IN  \E scan \in [1..Cardinality(found) -> found] :
                    /\ \A i \in found : \E n \in DOMAIN scan : scan[n] = i
                    /\ LET result == limitOffset(scan, calls[slot].item.take,
                                                 calls[slot].item.skip)
                           items == [n \in DOMAIN result |->
                               convertToPublic(schema, tableRows[result[n]])]
                       IN  IF calls[slot].item.pagingEnabled
                           THEN /\ calls' = [calls EXCEPT
                                       ![slot].stmt = "get",
                                       ![slot].item.items = items]
                                /\ UNCHANGED cev
                           ELSE complete(slot, NoErr,
                                    [data |-> items, total |-> NoNumber])

\* the callback of get of SELECT COUNT(*): the page with the total
GetPageByFilterGetCallback(slot) ==
    /\ CrudFrame
    /\ calls[slot].op = "getPageByFilter"
    /\ calls[slot].stmt = "get"
    /\ UNCHANGED tableRows
    /\ complete(slot, NoErr,
           [data |-> calls[slot].item.items,
            total |-> Cardinality(whereFilter(schema, tableRows,
                                              calls[slot].item.filter))])

\* ---- specifications ----

NoEv == [act |-> "init", who |-> Env, cb |-> NoCb, ccb |-> NoConnCb]

ResolveIdle ==
    /\ rIn = [connections |-> <<>>, resolveErr |-> NoErr, lookupErr |-> NoErr]
    /\ rConnections = <<>>
    /\ rDone = {}
    /\ rCb = <<>>

LifeIdle ==
    /\ conn = [c \in ConnIds |-> [connection |-> NoHandle,
                                  databaseName |-> NullStr,
                                  config |-> CfgNone]]
    /\ style = [p \in Pers |-> "none"]
    /\ pers = [p \in Pers |-> [connection |-> NoConn, localConnection |-> FALSE,
                               opened |-> FALSE, client |-> NoHandle,
                               databaseName |-> NullStr, config |-> CfgNone,
                               schemaStatements |-> <<>>]]
    /\ hstate = [h \in Handles |-> "free"]
    /\ ops = [i \in Slots |-> FreeOp]
    /\ nextConn = 1
    /\ nextHandle = 1
    /\ tableExists = FALSE
    /\ tableRows = EmptyTable
    /\ crashed = FALSE
    /\ ev = NoEv

\* no CRUD call is made
CrudIdle ==
    /\ schema = [json |-> FALSE, uniqueKey |-> FALSE]
    /\ calls = [i \in CallSlots |-> FreeCall]
    /\ cev = NoCev

\* a table with one row
OneRowTable ==
    [EmptyTable EXCEPT ![1] = [id |-> 1, key |-> <<"a">>, content |-> <<"x">>]]

\* the SqliteConnection of the references, configured with a database
ConnInit ==
    [c \in ConnIds |->
        [connection |-> NoHandle, databaseName |-> NullStr,
         config |-> IF c = SharedConn THEN CfgDatabase ELSE CfgNone]]

\* a persistence of subclass st after its constructor and configure
PersInit(st, config, c) ==
    [connection |-> c, localConnection |-> FALSE, opened |-> FALSE,
     client |-> NoHandle, databaseName |-> NullStr, config |-> config,
     schemaStatements |-> constructorSchema(st)]

\* one persistence and the SqliteConnection of the references, after
\* construction and configure
Init ==
    /\ ResolveIdle
    /\ conn = ConnInit
    /\ style \in {f \in [Pers -> Styles] : \A p \in Pers \ Solo : f[p] = "none"}
    /\ \E config \in {f \in [Pers -> Configs] :
                         \A p \in Pers \ Solo : f[p] = CfgNone} :
        pers = [p \in Pers |-> PersInit(style[p], config[p], NoConn)]
    /\ hstate = [h \in Handles |-> "free"]
    /\ ops = [i \in Slots |-> FreeOp]
    /\ nextConn = 1
    /\ nextHandle = 1
    /\ tableExists \in BOOLEAN
    /\ tableRows \in (IF tableExists THEN {EmptyTable, OneRowTable}
                                    ELSE {EmptyTable})
    /\ crashed = FALSE
    /\ ev = NoEv
    /\ CrudIdle

Next ==
    \/ \E p \in Solo : SetReferences(p)
    \/ \E p \in Solo : UnsetReferences(p)
    \/ \E p \in Solo : PersOpen(p)
    \/ \E p \in Solo : PersClose(p)
    \/ ConnOpen
    \/ ConnClose
    \/ \E slot \in Slots : DatabaseCallback(slot)
    \/ \E slot \in Slots : CloseCallback(slot)
    \/ \E slot \in Slots : ProbeCallback(slot)
    \/ \E slot \in Slots : ExecCallback(slot)

Spec == Init /\ [][Next]_vars

\* every persistence after setReferences found the SqliteConnection of the
\* references; none is rewired
InitShared ==
    /\ ResolveIdle
    /\ conn = ConnInit
    /\ style \in [Pers -> {"none", "define"}]
    /\ pers = [p \in Pers |-> PersInit(style[p], CfgNone, SharedConn)]
    /\ hstate = [h \in Handles |-> "free"]
    /\ ops = [i \in Slots |-> FreeOp]
    /\ nextConn = 1
    /\ nextHandle = 1
    /\ tableExists \in BOOLEAN
    /\ tableRows = EmptyTable
    /\ crashed = FALSE
    /\ ev = NoEv
    /\ CrudIdle

NextShared ==
    \/ \E p \in Pers : PersOpen(p)
    \/ \E p \in Pers : PersClose(p)
    \/ ConnOpen
    \/ ConnClose
    \/ \E slot \in Slots : DatabaseCallback(slot)
    \/ \E slot \in Slots : CloseCallback(slot)
    \/ \E slot \in Slots : ProbeCallback(slot)
    \/ \E slot \in Slots : ExecCallback(slot)

SpecShared == InitShared /\ [][NextShared]_vars

InitResolve ==
    /\ rIn \in ResolveInputs
    /\ rConnections = <<>>
    /\ rDone = {}
    /\ rCb = <<>>
    /\ LifeIdle
    /\ CrudIdle

NextResolve ==
    \/ ConnectionsResolved
    \/ CredentialResolved

SpecResolve == InitResolve /\ [][NextResolve]_vars

\* the subclasses: a flat table, a JSON table, a JSON table with a unique
\* index on the key
Schemas == {[json |-> FALSE, uniqueKey |-> FALSE],
            [json |-> TRUE, uniqueKey |-> FALSE],
            [json |-> TRUE, uniqueKey |-> TRUE]}

\* the rows a table of the schema sch may hold for id i
RowsOf(sch, i) ==
    {convertFromPublic(sch, item) : item \in {it \in Items : it.id = i}}

\* the tables of the schema sch with rows of the ids callers choose
Tables(sch) ==
    {rows \in [AllIds -> UNION {RowsOf(sch, i) : i \in Ids} \cup {NoRow}] :
        /\ rows[GenId] = NoRow
        /\ \A i \in Ids : rows[i] = NoRow \/ rows[i] \in RowsOf(sch, i)
        /\ \A i \in Ids : rows[i] # NoRow => ~keyTaken(sch, rows, rows[i])}

\* a persistence of one of the schemas that open has opened on its own
\* connection, over a table that exists
InitOpened(schemas) ==
    /\ ResolveIdle
    /\ conn = [c \in ConnIds |->
                 IF c = 1
                 THEN [connection |-> 1, databaseName |-> <<"a">>,
                       config |-> CfgDatabase]
                 ELSE [connection |-> NoHandle, databaseName |-> NullStr,
                       config |-> CfgNone]]
    /\ style = [p \in Pers |-> "none"]
    /\ pers = [p \in Pers |->
                 IF p \in Solo
                 THEN [connection |-> 1, localConnection |-> TRUE,
                       opened |-> TRUE, client |-> 1, databaseName |-> <<"a">>,
                       config |-> CfgDatabase, schemaStatements |-> <<>>]
                 ELSE PersInit("none", CfgNone, NoConn)]
    /\ hstate = [h \in Handles |-> IF h = 1 THEN "open" ELSE "free"]
    /\ ops = [i \in Slots |-> FreeOp]
    /\ nextConn = 2
    /\ nextHandle = 2
    /\ tableExists = TRUE
    /\ schema \in schemas
    /\ tableRows \in Tables(schema)
    /\ crashed = FALSE
    /\ ev = NoEv
    /\ calls = [i \in CallSlots |-> FreeCall]
    /\ cev = NoCev

InitCrud == InitOpened(Schemas)

NextCrud ==
    \/ \E item \in Items \cup {NullItem} : Create(item)
    \/ \E slot \in CallSlots : CreateCallback(slot)
    \/ \E id \in AllIds : GetOneById(id)
    \/ \E slot \in CallSlots : GetOneByIdCallback(slot)
    \/ \E item \in Items \cup {NullItem} : Set(item)
    \/ \E slot \in CallSlots : SetRunCallback(slot)
    \/ \E slot \in CallSlots : SetGetCallback(slot)
    \/ \E item \in Items \cup {NullItem} : Update(item)
    \/ \E slot \in CallSlots : UpdateRunCallback(slot)
    \/ \E slot \in CallSlots : UpdateGetCallback(slot)

SpecCrud == InitCrud /\ [][NextCrud]_vars

\* the methods that delete and the ones that read what is left
NextDelete ==
    \/ \E id \in AllIds \cup {NoId} : DeleteById(id)
    \/ \E slot \in CallSlots : DeleteByIdGetCallback(slot)
    \/ \E slot \in CallSlots : DeleteByIdRunCallback(slot)
    \/ \E id \in AllIds : GetOneById(id)
    \/ \E slot \in CallSlots : GetOneByIdCallback(slot)
    \/ \E ids \in IdLists : GetListByIds(ids)
    \/ \E slot \in CallSlots : GetListByIdsCallback(slot)
    \/ \E ids \in IdLists : DeleteByIds(ids)
    \/ \E slot \in CallSlots : DeleteByIdsCallback(slot)

SpecDelete == InitCrud /\ [][NextDelete]_vars

\* clear and the reads by filter
NextPage ==
    \/ Clear
    \/ \E slot \in CallSlots : ClearCallback(slot)
    \/ \E key \in FilterKeys : GetCountByFilter(key)
    \/ \E slot \in CallSlots : GetCountByFilterCallback(slot)
    \/ \E key \in FilterKeys, paging \in Pagings :
        GetPageByFilter(key, paging)
    \/ \E slot \in CallSlots : GetPageByFilterAllCallback(slot)
    \/ \E slot \in CallSlots : GetPageByFilterGetCallback(slot)

SpecPage == InitOpened(PageSchemas) /\ [][NextPage]_vars

\* the items that carry an id
WriteItems == {item \in Items : item.id # NoId}

\* the three methods that write a row and read it back, over the same tables
NextWrite ==
    \/ \E item \in WriteItems \cup {NullItem} : Set(item)
    \/ \E slot \in CallSlots : SetRunCallback(slot)
    \/ \E slot \in CallSlots : SetGetCallback(slot)
    \/ \E item \in WriteItems \cup {NullItem} : Update(item)
    \/ \E slot \in CallSlots : UpdateRunCallback(slot)
    \/ \E slot \in CallSlots : UpdateGetCallback(slot)
    \/ \E id \in Ids \cup {NoId}, data \in Datas \cup {NullItem} :
        UpdatePartially(id, data)
    \/ \E slot \in CallSlots : UpdatePartiallyRunCallback(slot)
    \/ \E slot \in CallSlots : UpdatePartiallyGetCallback(slot)

SpecWrite == InitCrud /\ [][NextWrite]_vars

\* every method that writes or deletes, on the JSON tables
NextJson ==
    \/ \E item \in Items : Create(item)
    \/ \E slot \in CallSlots : CreateCallback(slot)
    \/ \E item \in WriteItems : Set(item)
    \/ \E slot \in CallSlots : SetRunCallback(slot)
    \/ \E slot \in CallSlots : SetGetCallback(slot)
    \/ \E item \in WriteItems : Update(item)
    \/ \E slot \in CallSlots : UpdateRunCallback(slot)
    \/ \E slot \in CallSlots : UpdateGetCallback(slot)
    \/ \E id \in Ids, data \in IdDatas : UpdatePartially(id, data)
    \/ \E slot \in CallSlots : UpdatePartiallyRunCallback(slot)
    \/ \E slot \in CallSlots : UpdatePartiallyGetCallback(slot)
    \/ \E id \in Ids : DeleteById(id)
    \/ \E slot \in CallSlots : DeleteByIdGetCallback(slot)
    \/ \E slot \in CallSlots : DeleteByIdRunCallback(slot)
    \/ \E ids \in {list \in IdLists : Len(list) = MaxIdList} :
        DeleteByIds(ids)
    \/ \E slot \in CallSlots : DeleteByIdsCallback(slot)

\* on the JSON table without unique index
SpecJson ==
    InitOpened({sch \in Schemas : sch.json /\ ~sch.uniqueKey})
        /\ [][NextJson]_vars

(***************************************************************************)
(* Properties of the lifecycle                                             *)
(***************************************************************************)

\* C1: isOpen() of a persistence is true exactly when its last completed
\* lifecycle call was a successful open: false at first, and a step changes
\* it only by invoking the callback of open or close, after which it is true
\* iff that callback is open's and received null.
C1_IsOpenTracksLastCall ==
    /\ \A p \in Pers : ~persistenceIsOpen(St, p)
    /\ [][\A p \in Pers :
            IF ev'.who = p /\ ev'.cb.kind # "none"
            THEN pers'[p].opened = (ev'.cb.kind = "open" /\ ev'.cb.err = NoErr)
            ELSE pers'[p].opened = pers[p].opened]_vars

\* C2: when a SqliteConnection's open callback has just received null,
\* isOpen() is true, getConnection() is the handle the driver opened and
\* getDatabaseName() the database of the resolved configuration; when its
\* close callback has just been invoked, isOpen() is false and both getters
\* return null.
C2_ConnectionAccessors ==
    LET c == ev.ccb.c
    IN  /\ (ev.ccb.kind = "open" /\ ev.ccb.err = NoErr) =>
            /\ isOpen(St, c)
            /\ getConnection(St, c) = ev.ccb.h
            /\ hstate[ev.ccb.h] = "open"
            /\ getDatabaseName(St, c) = composeConfig(conn[c].config).database
        /\ ev.ccb.kind = "close" =>
            /\ ~isOpen(St, c)
            /\ getConnection(St, c) = NoHandle
            /\ getDatabaseName(St, c) = NullStr

\* a SqliteConnection that was open has just completed close
C2_Witness ==
    /\ ev.act = "closeCallback"
    /\ ev.ccb.kind = "close"
    /\ ev.ccb.err = NoErr
    /\ hstate[1] = "closed"

\* C3: a step taken for a persistence that shares the SqliteConnection of the
\* references neither opens nor closes that connection: its fields, the
\* driver's handles and the requests to open or close a handle are as
\* before; and the client such a persistence takes is the handle the shared
\* connection holds.
C3_SharedConnectionUntouched ==
    [][\A p \in Pers :
          ev'.who = p =>
            /\ conn' = conn
            /\ hstate' = hstate
            /\ nextHandle' = nextHandle
            /\ nextConn' = nextConn
            /\ \A i \in Slots :
                  ops'[i].kind \in {"connOpen", "connClose"} => ops'[i] = ops[i]
            /\ pers'[p].client # pers[p].client =>
                  pers'[p].client \in {NoHandle, getConnection(St, SharedConn)}]_vars

\* both persistences are open on the one handle the shared connection holds
C3_Witness ==
    /\ \A p \in Pers : persistenceIsOpen(St, p)
    /\ \A p \in Pers : pers[p].client = getConnection(St, SharedConn)
    /\ isOpen(St, SharedConn)
    /\ ev.who \in Pers
    /\ ev.cb.kind = "open"

\* C4: when close of a persistence that owns a locally created connection
\* has just completed, and no other call of that persistence is in flight,
\* that SqliteConnection is not open.
C4_CloseFreesLocalConnection ==
    \A p \in Pers :
        (/\ ev.who = p
         /\ ev.cb.kind = "close"
         /\ \A i \in Slots : ops[i].kind # "free" => ops[i].who # p
         /\ pers[p].localConnection
         /\ pers[p].connection # NoConn)
        => ~isOpen(St, pers[p].connection)

\* C7: when open's callback is invoked, statements were handed to the driver
\* iff the probe answered "no such table"; if the probe found the table, no
\* statement ran and the table and its rows are as before; if no statement
\* is registered, no probe was made and open succeeded.
C7_CreateIfNotExists ==
    [][ev'.cb.kind = "open" =>
          LET sum == ev'.cb.sum
          IN  /\ (sum.ran > 0) <=> (sum.probe = "no such table")
              /\ sum.probe = "ok" =>
                    /\ sum.ran = 0
                    /\ tableRows' = tableRows
                    /\ tableExists' = tableExists
              /\ (sum.called /\ sum.nstmts = 0) =>
                    /\ sum.probe = "none"
                    /\ ev'.cb.err = NoErr
                    /\ pers'[ev'.who].opened]_vars

\* an open found the table, with a row in it, and completed
C7_Witness ==
    /\ ev.cb.kind = "open"
    /\ ev.cb.err = NoErr
    /\ ev.cb.sum.probe = "ok"
    /\ ev.cb.sum.nstmts > 0
    /\ tableRows # EmptyTable

(***************************************************************************)
(* Properties of SqliteConnectionResolver.resolve                          *)
(***************************************************************************)

FirstInvalid(connections) ==
    LET bad == {i \in 1..Len(connections) :
                   \/ /\ connections[i].uri # NullStr
                      /\ ~StartsWith(connections[i].uri, FileProtocol)
                   \/ /\ connections[i].uri = NullStr
                      /\ connections[i].database = NullStr}
    IN  IF bad = {} THEN 0 ELSE CHOOSE i \in bad : \A j \in bad : i <= j

\* C6: resolve invokes its callback at most once; a failure comes with a
\* null config, a success only for a non-empty list of valid connections;
\* and when both lookups answer, no connection gives NO_CONNECTION, and the
\* first invalid connection gives WRONG_PROTOCOL if its uri does not start
\* with file://, NO_DATABASE if it has neither uri nor database.
C6_ValidatesBeforeComposing ==
    LET connections == rIn.connections
        k == FirstInvalid(connections)
    IN  /\ Len(rCb) <= 1
        /\ \A i \in 1..Len(rCb) :
            /\ rCb[i].err # NoErr => rCb[i].config = NullConfig
            /\ rCb[i].err = NoErr =>
                /\ rCb[i].config # NullConfig
                /\ Len(connections) > 0
                /\ k = 0
            /\ (rIn.resolveErr = NoErr /\ rIn.lookupErr = NoErr) =>
                /\ Len(connections) = 0 => rCb[i].err = "NO_CONNECTION"
                /\ (k > 0 /\ connections[k].uri # NullStr) =>
                      rCb[i].err = "WRONG_PROTOCOL"
                /\ (k > 0 /\ connections[k].uri = NullStr) =>
                      rCb[i].err = "NO_DATABASE"
        /\ (rIn.resolveErr = NoErr /\ rIn.lookupErr = NoErr
                /\ "connections" \in rDone
                /\ (Len(connections) = 0 \/ k > 0)) => Len(rCb) = 1

\* the second of two connections has a uri of another protocol
C6_Witness ==
    /\ Len(rIn.connections) = 2
    /\ FirstInvalid(rIn.connections) = 2
    /\ rCb = <<[err |-> "WRONG_PROTOCOL", config |-> NullConfig]>>

(***************************************************************************)
(* Properties of the CRUD helpers                                          *)
(***************************************************************************)

\* C8: when getOneById completes, having run alone right after a create
\* that completed without error, for the id of the created item, it answers
\* a null error and an item equal to the created one; and when no row has
\* the id it looks for, it answers a null error and a null item.
C8_CreateThenGetOneById ==
    [][\A slot \in CallSlots :
          (calls[slot].op = "getOneById" /\ calls'[slot].op = "free") =>
            /\ (/\ cev.op = "create"
                /\ cev.err = NoErr
                /\ cev.result # NullItem
                /\ calls[slot].alone
                /\ calls[slot].id = cev.result.id)
               => (cev'.err = NoErr /\ cev'.result = cev.result)
            /\ tableRows[calls[slot].id] = NoRow
               => (cev'.err = NoErr /\ cev'.result = NullItem)]_vars

\* create of an item without id has completed without error on a JSON
\* table, and getOneById of the id it was given is in flight
C8_Witness ==
    /\ schema.json
    /\ cev.op = "create"
    /\ cev.err = NoErr
    /\ cev.result.id = GenId
    /\ \E slot \in CallSlots :
        /\ calls[slot].op = "getOneById"
        /\ calls[slot].alone
        /\ calls[slot].id = GenId
    /\ tableRows[GenId] # NoRow

\* C9: the statement set writes with leaves every row of another id as it
\* was; and when a set that ran alone completes without error, the table
\* holds the row of the item under its id and the callback received the
\* item.
C9_SetIsUpsert ==
    [][\A slot \in CallSlots :
          calls[slot].op = "set" =>
            /\ (calls[slot].stmt = "run" /\ calls'[slot].stmt = "get") =>
                  \A j \in AllIds :
                      j # calls[slot].id => tableRows'[j] = tableRows[j]
            /\ (/\ calls[slot].stmt = "get"
                /\ calls'[slot].op = "free"
                /\ calls[slot].alone
                /\ cev'.err = NoErr)
               => /\ tableRows'[calls[slot].id] =
                        convertFromPublic(schema, calls[slot].item)
                  /\ cev'.result = calls[slot].item]_vars

\* C10: the statement update writes with leaves every row of another id as
\* it was, and the whole table when no row has the item's id; when an update
\* that ran alone completes without error, the callback received null if no
\* row has the id, and otherwise the row as stored, which is the item's; and
\* update of a null item or of an item without id answers (null, null) and
\* leaves the table as it was.
C10_UpdateOnlyItsRow ==
    [][/\ \A slot \in CallSlots :
            calls[slot].op = "update" =>
              /\ (calls[slot].stmt = "run" /\ calls'[slot].stmt = "get") =>
                    /\ \A j \in AllIds :
                          j # calls[slot].id => tableRows'[j] = tableRows[j]
                    /\ tableRows[calls[slot].id] = NoRow =>
                          tableRows' = tableRows
              /\ (/\ calls[slot].stmt = "get"
                  /\ calls'[slot].op = "free"
                  /\ calls[slot].alone
                  /\ cev'.err = NoErr)
                 => IF tableRows[calls[slot].id] = NoRow
                    THEN cev'.result = NullItem
                    ELSE /\ cev'.result = calls[slot].item
                         /\ tableRows'[calls[slot].id] =
                               convertFromPublic(schema, calls[slot].item)
       /\ (/\ cev' # cev
           /\ calls' = calls
           /\ cev'.op = "update")
          => /\ cev'.item = NullItem \/ cev'.item.id = NoId
             /\ cev'.err = NoErr
             /\ cev'.result = NullItem
             /\ tableRows' = tableRows]_vars

\* the methods whose write statement is followed by a read-back SELECT
WriteOps == {"set", "update", "updatePartially"}

\* the call in the slot is between its write statement and its read-back
AwaitsReadBack(slot) ==
    /\ calls[slot].op \in WriteOps
    /\ calls[slot].stmt = "get"

\* this step is the read-back's callback invoking the caller's callback
ReadBackCompletes(slot) ==
    /\ AwaitsReadBack(slot)
    /\ calls'[slot].op = "free"

\* C11: whenever the driver reported an error for the write statement of set,
\* update or updatePartially, the caller's callback receives a non-null error
C11_WriteErrorReported ==
    [][\A slot \in CallSlots :
        (ReadBackCompletes(slot) /\ calls[slot].werr # NoErr)
            => cev'.err # NoErr]_vars

\* this step is a driver callback of the call in the slot
Executes(slot) ==
    /\ calls[slot].op # "free"
    /\ calls'[slot].op = "free" \/ calls'[slot].stmt # calls[slot].stmt

\* C12: deleteById of an id that no row has completes from the callback of
\* its SELECT with a null error and a null item, the table as it was and no
\* DELETE handed to the driver; for a stored id the DELETE follows, it removes
\* the row of that id and no other, and a deleteById that ran alone passes
\* the removed item to the callback; a getOneById of that id that runs alone
\* right after answers null.
C12_DeleteById ==
    [][\A slot \in CallSlots :
          /\ (/\ Executes(slot)
              /\ calls[slot].op = "deleteById"
              /\ calls[slot].stmt = "get") =>
                IF selectWhereId(tableRows, calls[slot].id) = NoRow
                THEN /\ calls'[slot].op = "free"
                     /\ cev'.err = NoErr
                     /\ cev'.result = NullItem
                     /\ tableRows' = tableRows
                ELSE /\ calls'[slot].op = "deleteById"
                     /\ calls'[slot].stmt = "run"
          /\ (/\ Executes(slot)
              /\ calls[slot].op = "deleteById"
              /\ calls[slot].stmt = "run") =>
                /\ tableRows'[calls[slot].id] = NoRow
                /\ \A j \in AllIds :
                      j # calls[slot].id => tableRows'[j] = tableRows[j]
                /\ calls[slot].alone =>
                      /\ cev'.err = NoErr
                      /\ cev'.result # NullItem
                      /\ cev'.result =
                            convertToPublic(schema, tableRows[calls[slot].id])
          /\ (/\ calls[slot].op = "getOneById"
              /\ calls'[slot].op = "free"
              /\ calls[slot].alone
              /\ cev.op = "deleteById"
              /\ cev.id = calls[slot].id)
             => (cev'.err = NoErr /\ cev'.result = NullItem)]_vars

\* deleteById has removed one of two rows and passed it to its callback, and
\* getOneById of the same id is in flight
C12_Witness ==
    /\ cev.op = "deleteById"
    /\ cev.result # NullItem
    /\ cev.result.id = cev.id
    /\ \E slot \in CallSlots :
        /\ calls[slot].op = "getOneById"
        /\ calls[slot].alone
        /\ calls[slot].id = cev.id
    /\ \E j \in AllIds : j # cev.id /\ tableRows[j] # NoRow

\* C13: getListByIds answers a null error and a list that holds the item of
\* every stored row whose id occurs in ids, each once, and nothing else;
\* the DELETE of deleteByIds leaves no row whose id occurs in ids, leaves
\* every other row as it was, and its callback receives a null error.
C13_ListAndDeleteByIds ==
    [][\A slot \in CallSlots :
          /\ (Executes(slot) /\ calls[slot].op = "getListByIds") =>
                LET ids == calls[slot].item.ids
                    items == cev'.result.items
                    wanted == {i \in AllIds : /\ tableRows[i] # NoRow
                                              /\ \E n \in DOMAIN ids : ids[n] = i}
                IN  /\ cev'.err = NoErr
                    /\ Len(items) = Cardinality(wanted)
                    /\ \A i \in wanted :
                          \E n \in DOMAIN items :
                              /\ items[n] = convertToPublic(schema, tableRows[i])
                              /\ items[n].id = i
                    /\ tableRows' = tableRows
          /\ (Executes(slot) /\ calls[slot].op = "deleteByIds") =>
                LET ids == calls[slot].item.ids
                IN  /\ cev'.err = NoErr
                    /\ \A i \in AllIds :
                          IF \E n \in DOMAIN ids : ids[n] = i
                          THEN tableRows'[i] = NoRow
                          ELSE tableRows'[i] = tableRows[i]]_vars

\* getListByIds of an array that names one stored id twice has answered one
\* item, while a row of another id is stored
C13_Witness ==
    /\ cev.op = "getListByIds"
    /\ Len(cev.item.ids) = 2
    /\ cev.item.ids[1] = cev.item.ids[2]
    /\ Len(cev.result.items) = 1
    /\ \E j \in AllIds : j # cev.item.ids[1] /\ tableRows[j] # NoRow

\* C14: the DELETE of clear leaves no row, the table and the open state stay,
\* and its callback receives a null error; a getCountByFilter with no filter
\* that runs alone right after answers 0; when the table name is null, clear
\* hands nothing to the driver, leaves the table as it was and its callback
\* receives the error 'Table name is not defined'.
C14_Clear ==
    [][/\ \A slot \in CallSlots :
            /\ (Executes(slot) /\ calls[slot].op = "clear") =>
                  /\ \A i \in AllIds : tableRows'[i] = NoRow
                  /\ cev'.err = NoErr
                  /\ tableExists' /\ tableExists
                  /\ \A p \in Solo : pers'[p].opened /\ pers[p].opened
            /\ (/\ Executes(slot)
                /\ calls[slot].op = "getCountByFilter"
                /\ calls[slot].item.filter = NullStr
                /\ calls[slot].alone
                /\ cev.op = "clear"
                /\ cev.err = NoErr)
               => (cev'.err = NoErr /\ cev'.result.count = 0)
            /\ (calls'[slot].op = "clear" /\ calls[slot].op # "clear")
               => schema.tableName # NullStr
       /\ (schema.tableName = NullStr /\ cev'.op = "clear" /\ cev' # cev)
          => /\ cev'.err = "Table name is not defined"
             /\ calls' = calls
             /\ tableRows' = tableRows]_vars

\* clear has completed without error and a getCountByFilter with no filter is
\* in flight alone
C14_Witness ==
    /\ cev.op = "clear"
    /\ cev.err = NoErr
    /\ \A i \in AllIds : tableRows[i] = NoRow
    /\ \E slot \in CallSlots :
        /\ calls[slot].op = "getCountByFilter"
        /\ calls[slot].item.filter = NullStr
        /\ calls[slot].alone

\* C15: the rows the SELECT of getPageByFilter answers are rows that match the
\* filter, each at most once, as many as are left after skipping skip rows,
\* up to take and never more than max_page_size; a page answered without
\* error carries no total when paging.total is not set, and otherwise the
\* number of rows that match the filter.
C15_PageSize ==
    [][\A slot \in CallSlots :
          (/\ Executes(slot)
           /\ calls[slot].op = "getPageByFilter"
           /\ schema.tableName # NullStr) =>
            LET call == calls[slot].item
                over == calls'[slot].op = "free"
                matching == {i \in AllIds :
                                /\ tableRows[i] # NoRow
                                /\ \/ call.filter = NullStr
                                   \/ rowKey(schema, tableRows[i]) = call.filter}
                left == IF call.skip <= 0 THEN Cardinality(matching)
                        ELSE IF call.skip >= Cardinality(matching) THEN 0
                        ELSE Cardinality(matching) - call.skip
                data == IF over THEN cev'.result.data
                        ELSE calls'[slot].item.items
            IN  /\ over => cev'.err = NoErr
                /\ Len(data) <= schema.maxPageSize
                /\ calls[slot].stmt = "all" =>
                      /\ Len(data) = (IF call.take < left THEN call.take
                                      ELSE left)
                      /\ \A n \in DOMAIN data :
                            /\ data[n].id \in matching
                            /\ data[n] = convertToPublic(schema,
                                              tableRows[data[n].id])
                            /\ \A m \in DOMAIN data :
                                  data[m].id = data[n].id => m = n
                      /\ over <=> ~call.pagingEnabled
                      /\ over => cev'.result.total = NoNumber
                /\ calls[slot].stmt = "get" =>
                      /\ over
                      /\ call.pagingEnabled
                      /\ data = call.items
                      /\ cev'.result.total = Cardinality(matching)]_vars

\* with options.max_page_size configured, a page of one item was answered
\* for a take of more, with the total of the two rows in the table
C15_Witness ==
    /\ cev.op = "getPageByFilter"
    /\ cev.err = NoErr
    /\ schema.maxPageSize = ConfiguredMaxPageSize
    /\ Len(cev.result.data) = ConfiguredMaxPageSize
    /\ cev.result.total > ConfiguredMaxPageSize
    /\ cev.result.total = Cardinality({i \in AllIds : tableRows[i] # NoRow})

\* C16: while set, update or updatePartially is between its write statement
\* and its read-back SELECT, no statement of another call executes, and the
\* row of its id stays as its write left it until the read-back.
C16_WriteAndReadBackTogether ==
    [][\A slot \in CallSlots :
          AwaitsReadBack(slot) =>
            /\ \A other \in CallSlots \ {slot} : ~Executes(other)
            /\ ~Executes(slot) =>
                  tableRows'[calls[slot].id] = tableRows[calls[slot].id]]_vars

\* C17: the UPDATE of updatePartially leaves the rows of other ids as they
\* were, the whole table when no row has the id, and in the row of the id
\* the id and the fields that data does not name; when an updatePartially
\* that ran alone completes without error, the callback received null if no
\* row has the id and otherwise the stored item, which has the values of data
\* in the fields data names; with a null id or null data the callback
\* receives (null, null) and the table is as it was.
C17_UpdatePartially ==
    [][/\ \A slot \in CallSlots :
            (Executes(slot) /\ calls[slot].op = "updatePartially") =>
              LET id == calls[slot].id
                  data == calls[slot].item
                  before == convertToPublic(schema, tableRows[id])
                  after == convertToPublic(schema, tableRows'[id])
              IN  /\ \A j \in AllIds : j # id => tableRows'[j] = tableRows[j]
                  /\ tableRows[id] = NoRow => tableRows' = tableRows
                  /\ tableRows[id] # NoRow =>
                        /\ after.id = id
                        /\ data.key = Absent => after.key = before.key
                        /\ data.content = Absent =>
                              after.content = before.content
                  /\ (/\ calls[slot].stmt = "get"
                      /\ calls[slot].alone
                      /\ cev'.err = NoErr)
                     => IF tableRows[id] = NoRow
                        THEN cev'.result = NullItem
                        ELSE /\ cev'.result = after
                             /\ data.key # Absent => after.key = data.key
                             /\ data.content # Absent =>
                                   after.content = data.content
       /\ (/\ cev' # cev
           /\ calls' = calls
           /\ cev'.op = "updatePartially")
          => /\ cev'.item = NullItem \/ cev'.id = NoId
             /\ cev'.err = NoErr
             /\ cev'.result = NullItem
             /\ tableRows' = tableRows]_vars

\* C18: close of a persistence that uses the shared connection invokes its
\* callback with a null error before it returns and leaves the persistence
\* not opened, whether the shared SqliteConnection is open or was closed
\* before.
C18_CloseAfterSharedClosed ==
    [][\A p \in Pers :
          (/\ ev'.act = "close"
           /\ ev'.who = p
           /\ pers[p].connection = SharedConn
           /\ ~pers[p].localConnection)
          => /\ ev'.cb.kind = "close"
             /\ ev'.cb.err = NoErr
             /\ ~pers'[p].opened]_vars

\* the shared connection is closed while the other persistence is still
\* opened on it, and close of this persistence, which was opened on it too,
\* has just completed
C18_Witness ==
    /\ ~isOpen(St, SharedConn)
    /\ \E p \in Pers :
        /\ ev.act = "close"
        /\ ev.who = p
        /\ ev.cb.err = NoErr
        /\ ~persistenceIsOpen(St, p)
        /\ pers[p].databaseName # NullStr
        /\ pers[p].client = NoHandle
        /\ \E q \in Pers \ {p} :
            /\ persistenceIsOpen(St, q)
            /\ pers[q].client # NoHandle
            /\ hstate[pers[q].client] = "closed"

\* C19: on the statement list of every persistence, autoCreateObject(s) and
\* ensureSchema(s) answer the same list, which is the list with s appended,
\* and clearSchema answers the empty list; and a persistence whose
\* defineSchema starts with clearSchema holds either no statement or the
\* list defineSchema registers, which it holds whenever it is opened.
C19_SchemaRegistration ==
    \A p \in Pers :
        LET statements == pers[p].schemaStatements
        IN  /\ \A s \in {"table", "index"} :
                  /\ autoCreateObject(statements, s) =
                        ensureSchema(statements, s)
                  /\ Len(ensureSchema(statements, s)) = Len(statements) + 1
                  /\ ensureSchema(statements, s)[Len(statements) + 1] = s
                  /\ SubSeq(ensureSchema(statements, s), 1, Len(statements)) =
                        statements
            /\ clearSchema(statements) = <<>>
            /\ style[p] = "define" =>
                  /\ statements \in {<<>>, <<"table", "index">>}
                  /\ persistenceIsOpen(St, p) =>
                        statements = <<"table", "index">>

\* a persistence whose defineSchema starts with clearSchema is opened on the
\* second handle of its own connection after the first was closed
C19_Witness ==
    \E p \in Pers :
        /\ style[p] = "define"
        /\ persistenceIsOpen(St, p)
        /\ pers[p].localConnection
        /\ pers[p].client = MaxHandles
        /\ hstate[1] = "closed"
        /\ pers[p].schemaStatements = <<"table", "index">>

\* C20: open of a persistence that is opened invokes its callback with null
\* before it returns, without a call of createSchema, and changes nothing:
\* no connection is created, no request goes to the driver, the connections,
\* the handles, the statement list and the table are as before, and the
\* persistence is still opened.
C20_OpenWhenOpened ==
    [][\A p \in Pers :
          (ev'.act = "open" /\ ev'.who = p /\ persistenceIsOpen(St, p)) =>
            /\ ev'.cb = [kind |-> "open", err |-> NoErr, sum |-> NoSum]
            /\ pers' = pers
            /\ conn' = conn
            /\ nextConn' = nextConn
            /\ hstate' = hstate
            /\ nextHandle' = nextHandle
            /\ ops' = ops
            /\ tableExists' = tableExists
            /\ tableRows' = tableRows
            /\ pers'[p].opened]_vars

\* open has just answered null without a call of createSchema to a
\* persistence that is opened and has schema statements registered
C20_Witness ==
    \E p \in Pers :
        /\ ev.act = "open"
        /\ ev.who = p
        /\ ev.cb = [kind |-> "open", err |-> NoErr, sum |-> NoSum]
        /\ persistenceIsOpen(St, p)
        /\ Len(pers[p].schemaStatements) > 0

\* C21: open of a persistence that is not opened and uses the shared
\* connection, while that connection is not open, invokes its callback with
\* CONNECT_FAILED before it returns, without a call of createSchema; the
\* shared connection, the driver's handles and the requests to the driver are
\* as before, the statement list and the client too, and the persistence is
\* not opened.
C21_OpenOnClosedSharedConnection ==
    [][\A p \in Pers :
          (/\ ev'.act = "open"
           /\ ev'.who = p
           /\ ~persistenceIsOpen(St, p)
           /\ pers[p].connection = SharedConn
           /\ ~pers[p].localConnection
           /\ ~isOpen(St, SharedConn))
          => /\ ev'.cb = [kind |-> "open", err |-> "CONNECT_FAILED",
                          sum |-> NoSum]
             /\ conn' = conn
             /\ hstate' = hstate
             /\ nextHandle' = nextHandle
             /\ ops' = ops
             /\ pers'[p].client = pers[p].client
             /\ pers'[p].schemaStatements = pers[p].schemaStatements
             /\ ~pers'[p].opened]_vars

\* open of a persistence with a defineSchema of its own has just answered
\* CONNECT_FAILED on the shared connection, which is not open
C21_Witness ==
    \E p \in Pers :
        /\ ev.act = "open"
        /\ ev.who = p
        /\ ev.cb = [kind |-> "open", err |-> "CONNECT_FAILED", sum |-> NoSum]
        /\ style[p] = "define"
        /\ pers[p].connection = SharedConn
        /\ ~isOpen(St, SharedConn)
        /\ ~persistenceIsOpen(St, p)


\* C22: when the probe found no table, open hands the registered statements
\* to the driver one at a time in their order; after the answer to a
\* statement either the statement failed, and then no later statement is
\* executed, open's callback receives CONNECT_FAILED and isOpen() is false,
\* or the next statement is handed over, or it was the last and open's
\* callback receives null after all statements ran.
C22_SchemaStatementsInOrder ==
    [][\A slot \in Slots :
          (/\ ev'.act = "execCallback"
           /\ ops[slot].kind = "exec"
           /\ ops'[slot] # ops[slot])
          => LET op == ops[slot]
                 p == op.who
                 later == {t \in Slots : /\ ops'[t].kind = "exec"
                                         /\ ops'[t].who = p
                                         /\ (t = slot \/ ops[t].kind = "free")}
             IN  /\ op.i = op.sum.ran
                 /\ op.stmts = pers[p].schemaStatements
                 /\ \/ /\ ev'.cb = [kind |-> "open", err |-> "CONNECT_FAILED",
                                    sum |-> op.sum]
                       /\ later = {}
                       /\ ~pers'[p].opened
                    \/ /\ op.i < Len(op.stmts)
                       /\ ev'.cb = NoCb
                       /\ \E t \in later : /\ ops'[t].i = op.i + 1
                                           /\ ops'[t].stmts = op.stmts
                       /\ Cardinality(later) = 1
                    \/ /\ op.i = Len(op.stmts)
                       /\ ev'.cb = [kind |-> "open", err |-> NoErr,
                                    sum |-> op.sum]
                       /\ later = {}]_vars


\* C23: when create completes for an item passed without id, the callback
\* receives a copy of it carrying the generated id, which is not null, the
\* object passed still has no id and, without error, the copy is the row
\* stored under the generated id; for an item passed with an id the callback
\* receives that item and, without error, it is the row stored under that
\* id; no other row changes; and create of a null item answers (null, null)
\* and writes nothing.
C23_CreateAssignsId ==
    [][/\ \A slot \in CallSlots :
            (calls[slot].op = "create" /\ calls'[slot].op = "free") =>
              LET id == calls[slot].id
              IN  /\ cev'.op = "create"
                  /\ id # NoId
                  /\ cev'.result.id = id
                  /\ IF id = GenId
                     THEN /\ cev'.arg.id = NoId
                          /\ cev'.result = [cev'.arg EXCEPT !.id = GenId]
                     ELSE /\ cev'.arg.id = id
                          /\ cev'.result = cev'.arg
                  /\ cev'.err = NoErr =>
                        /\ tableRows[id] = NoRow
                        /\ tableRows'[id] =
                              convertFromPublic(schema, cev'.result)
                        /\ convertToPublic(schema, tableRows'[id]).id = id
                  /\ \A j \in AllIds : j # id => tableRows'[j] = tableRows[j]
       /\ (/\ cev' # cev
           /\ calls' = calls
           /\ cev'.op = "create")
          => /\ cev'.arg = NullItem
             /\ cev'.err = NoErr
             /\ cev'.result = NullItem
             /\ tableRows' = tableRows]_vars

\* create of an item without id has completed without error beside a row
\* stored earlier: the caller's object has no id still, the row is there
C23_Witness ==
    /\ cev.op = "create"
    /\ cev.err = NoErr
    /\ cev.arg # NullItem
    /\ cev.arg.id = NoId
    /\ cev.result.id = GenId
    /\ tableRows[GenId] # NoRow
    /\ \E j \in Ids : tableRows[j] # NoRow


\* C24: when the INSERT of a create is answered on a JSON table (primary key
\* on id) that holds a row of the item's id, the callback receives an error
\* and the table is as it was: the row keeps its content, no row is added.
C24_CreateOfStoredId ==
    [][\A slot \in CallSlots :
          (/\ calls[slot].op = "create"
           /\ calls'[slot].op = "free"
           /\ schema.json
           /\ tableRows[calls[slot].id] # NoRow)
          => /\ cev'.op = "create"
             /\ cev'.err # NoErr
             /\ tableRows' = tableRows]_vars

\* create has been refused on a JSON table without unique index for an item
\* whose id is stored with another content, beside a row of another id
C24_Witness ==
    /\ schema.json
    /\ ~schema.uniqueKey
    /\ cev.op = "create"
    /\ cev.err = "SQLITE_CONSTRAINT"
    /\ cev.id \in Ids
    /\ tableRows[cev.id] # NoRow
    /\ tableRows[cev.id] # convertFromPublic(schema, cev.item)
    /\ \E j \in AllIds : j # cev.id /\ tableRows[j] # NoRow


\* C25: every driver handle that was opened and has not been closed is the
\* handle getConnection() of its SqliteConnection returns, so that no
\* SqliteConnection has two live handles.
C25_OneLiveHandle ==
    \A h \in Handles :
        hstate[h] = "open" =>
            \E c \in ConnIds : getConnection(St, c) = h


\* the requests pending at the driver, each for one open or close call
Pending(o) == Cardinality({i \in Slots : o[i].kind # "free"})

\* C26: calls are neither lost nor answered twice: a step that is a call of
\* open or close adds one call, a step that invokes a caller's callback
\* answers one, and every call not yet answered has exactly one request
\* pending at the driver, whose answer will invoke the callback or hand over
\* the next request.
C26_CallbackExactlyOnce ==
    [][Pending(ops') + (IF ev'.cb.kind # "none" THEN 1 ELSE 0)
         = Pending(ops) + (IF ev'.act \in {"open", "close"} THEN 1 ELSE 0)]_vars


\* C27: in a JSON table every row is stored under its id column, so that no
\* two rows have the same id, and the id column equals the id field of the
\* document in the data column.
C27_JsonRowIds ==
    schema.json =>
        \A i \in AllIds :
            tableRows[i] # NoRow =>
                /\ tableRows[i].id = i
                /\ parse(tableRows[i].data).id = tableRows[i].id

====
